---- MODULE Spec2Model ----
(***************************************************************************)
(* Model of jsons/serializers.py: the default serializers and the          *)
(* dispatcher (dump_impl) they recurse through.                            *)
(*                                                                         *)
(* Python values are tagged records.  A Python str is a sequence of        *)
(* one-character strings, so that split, strftime and suffix tests are     *)
(* computed rather than assumed.  A dict is its sequence of <<key, value>> *)
(* pairs in insertion order, keys distinct.                                *)
(*                                                                         *)
(* Every serializer returns an outcome [raised, val, trace]: the value it  *)
(* returns (or the exception it raises) and the events of its execution in *)
(* program order; a dispatch event holds the events of the serializer it   *)
(* invoked in its field sub.                                               *)
(***************************************************************************)
EXTENDS Integers, Sequences, FiniteSets, TLC

VARIABLES obj, kwargs, pc, fn, out

vars == <<obj, kwargs, pc, fn, out>>

-----------------------------------------------------------------------------
(* Bounds of the input family *)

\* the largest number of elements of a sequence, and of entries of a mapping
MaxLen == 2

-----------------------------------------------------------------------------
(* Python values *)

None == [t |-> "null"]
Num(n) == [t |-> "num", n |-> n]
Str(s) == [t |-> "str", s |-> s]
List(elems) == [t |-> "list", elems |-> elems]
Tuple(elems) == [t |-> "tuple", elems |-> elems]
Iter(elems) == [t |-> "iter", elems |-> elems]
Dict(items) == [t |-> "dict", items |-> items]
\* an instance of a class with no serializer of its own; dict is obj.__dict__
Object(d) == [t |-> "obj", dict |-> d]
EnumMember(name, value) == [t |-> "enum", name |-> Str(name), value |-> value]
\* a tzinfo whose tzname(None) is name and whose utcoffset is minutes
Timezone(name, minutes) == [t |-> "tz", tzname |-> name, utcoffset |-> minutes]
Datetime(us, tz) ==
    [t |-> "dt", year |-> 2018, month |-> 7, day |-> 9, hour |-> 10,
     minute |-> 5, second |-> 59, microsecond |-> us, tzinfo |-> tz]

\* Python truthiness of the values the serializers test
Truthy(v) ==
    CASE v.t = "null" -> FALSE
      [] v.t = "num" -> v.n # 0
      [] v.t = "str" -> v.s # <<>>
      [] OTHER -> TRUE

Function(name) == [t |-> "fn", name |-> name]

\* key_transformer(key), for the callables a caller passes
CallKeyTransformer(key_transformer, key) ==
    CASE key_transformer.name = "append_underscore" -> key \o <<"_">>
      [] key_transformer.name = "first_letter" -> <<Head(key)>>

-----------------------------------------------------------------------------
(* Keyword arguments: a function from parameter names to values *)

NoKwargs == <<>>

Get(kw, name, default) == IF name \in DOMAIN kw THEN kw[name] ELSE default

Rest(kw, names) == [n \in (DOMAIN kw) \ names |-> kw[n]]

\* the Config a call receives: the named options with their defaults, and
\* every other keyword argument
ConfigOf(kw) ==
    [stripNulls |-> Get(kw, "strip_nulls", FALSE),
     keyTransformer |-> Get(kw, "key_transformer", None),
     extra |-> Rest(kw, {"strip_nulls", "key_transformer"})]

-----------------------------------------------------------------------------
(* Outcomes *)

Return(v) == [raised |-> FALSE, val |-> v, trace |-> <<>>]
Raise(e) == [raised |-> TRUE, val |-> [t |-> "exc", type |-> e], trace |-> <<>>]

-----------------------------------------------------------------------------
(* str and datetime methods of the standard library *)

Digits == <<"0", "1", "2", "3", "4", "5", "6", "7", "8", "9">>

RECURSIVE Pow10(_)
Pow10(k) == IF k = 0 THEN 1 ELSE 10 * Pow10(k - 1)

\* n in decimal, zero-padded to w characters
ZeroPad(n, w) == [i \in 1..w |-> Digits[((n \div Pow10(w - i)) % 10) + 1]]

\* the index of the first occurrence of sep in s, 0 if there is none
Find(s, sep) ==
    LET at == {i \in 1..(Len(s) - Len(sep) + 1) : SubSeq(s, i, i + Len(sep) - 1) = sep}
    IN IF at = {} THEN 0 ELSE CHOOSE i \in at : \A j \in at : i <= j

\* s.split(sep)
RECURSIVE Split(_, _)
Split(s, sep) ==
    LET i == Find(s, sep)
    IN IF i = 0 THEN <<s>>
       ELSE <<SubSeq(s, 1, i - 1)>> \o Split(SubSeq(s, i + Len(sep), Len(s)), sep)

Directive(d, c) ==
    CASE c = "Y" -> ZeroPad(d.year, 4)
      [] c = "m" -> ZeroPad(d.month, 2)
      [] c = "d" -> ZeroPad(d.day, 2)
      [] c = "H" -> ZeroPad(d.hour, 2)
      [] c = "M" -> ZeroPad(d.minute, 2)
      [] c = "S" -> ZeroPad(d.second, 2)
      [] c = "f" -> ZeroPad(d.microsecond, 6)
      [] c = "%" -> <<"%">>
      [] OTHER -> <<"%", c>>

\* d.strftime(format)
RECURSIVE Strftime(_, _)
Strftime(d, format) ==
    IF format = <<>> THEN <<>>
    ELSE IF Head(format) = "%" /\ Len(format) >= 2
         THEN Directive(d, format[2]) \o Strftime(d, Tail(Tail(format)))
         ELSE <<Head(format)>> \o Strftime(d, Tail(format))

RFC3339_DATETIME_PATTERN ==
    <<"%", "Y", "-", "%", "m", "-", "%", "d", "T", "%", "H", ":", "%", "M", ":", "%", "S">>

-----------------------------------------------------------------------------
(* The serializers *)

RECURSIVE dump_impl(_, _)

\* the comprehension of default_iterable_serializer, after its first n elements
RECURSIVE IterableLoop(_, _, _)
IterableLoop(elems, n, kw) ==
    IF n = 0 THEN Return(<<>>)
    ELSE LET prev == IterableLoop(elems, n - 1, kw)
         IN IF prev.raised THEN prev
            ELSE LET r == dump_impl(elems[n], kw)
                 IN [raised |-> r.raised,
                     val |-> IF r.raised THEN r.val ELSE Append(prev.val, r.val),
                     trace |-> prev.trace \o r.trace]

\* mutant: with strip_nulls the None results are left out of the list
IterableSerializerStrippingNulls(o, kw) ==
    LET r == IterableLoop(o.elems, Len(o.elems), kw)
    IN IF r.raised THEN r
       ELSE [r EXCEPT !.val = List(IF Get(kw, "strip_nulls", FALSE)
                                   THEN SelectSeq(r.val, LAMBDA v : v.t # "null")
                                   ELSE r.val)]

default_iterable_serializer(o, kw) ==
    LET r == IterableLoop(o.elems, Len(o.elems), kw)
    IN IF r.raised THEN r ELSE [r EXCEPT !.val = List(r.val)]

default_list_serializer(o, kw) == default_iterable_serializer(o, kw)

default_tuple_serializer(o, kw) == default_iterable_serializer(o, kw)

\* mutant: the recursive call forwards the two named options and drops **kwargs
ChildKwargsWithoutExtra(strip_nulls, key_transformer, kw) ==
    ("key_transformer" :> key_transformer) @@ ("strip_nulls" :> strip_nulls)

\* the keyword arguments of the dump_impl call for a value of the dict
ChildKwargs(strip_nulls, key_transformer, kw) ==
    ("key_transformer" :> key_transformer) @@ ("strip_nulls" :> strip_nulls) @@ kw

\* mutant: the test of line 66 never drops an entry
KeepsEverything(strip_nulls, dumped_elem) == TRUE

\* not (strip_nulls and dumped_elem is None)
Keeps(strip_nulls, dumped_elem) == ~(strip_nulls /\ dumped_elem.t = "null")

\* if key_transformer: key = key_transformer(key)
TransformedKey(key_transformer, key) ==
    IF Truthy(key_transformer) THEN CallKeyTransformer(key_transformer, key) ELSE key

\* mutant: a key already in the result keeps its first value
SetItemKeepingFirst(result, key, dumped_elem) ==
    IF \E i \in 1..Len(result) : result[i][1] = key
    THEN result
    ELSE Append(result, <<key, dumped_elem>>)

\* result[key] = dumped_elem
SetItem(result, key, dumped_elem) ==
    IF \E i \in 1..Len(result) : result[i][1] = key
    THEN [i \in 1..Len(result) |->
            IF result[i][1] = key THEN <<key, dumped_elem>> ELSE result[i]]
    ELSE Append(result, <<key, dumped_elem>>)

\* mutant: the key is transformed before the test of line 66, for every entry
EntryEventsTransformingFirst(strip_nulls, key_transformer, key, dumped_elem) ==
    (IF Truthy(key_transformer) THEN <<[e |-> "transform", key |-> key]>> ELSE <<>>)
    \o <<[e |-> "test", key |-> key, keep |-> Keeps(strip_nulls, dumped_elem)]>>
    \o (IF Keeps(strip_nulls, dumped_elem)
        THEN <<[e |-> "insert", key |-> TransformedKey(key_transformer, key), of |-> key]>>
        ELSE <<>>)

\* the events of one iteration of the loop, after its dump_impl call returned
EntryEvents(strip_nulls, key_transformer, key, dumped_elem) ==
    <<[e |-> "test", key |-> key, keep |-> Keeps(strip_nulls, dumped_elem)]>>
    \o (IF Keeps(strip_nulls, dumped_elem) /\ Truthy(key_transformer)
        THEN <<[e |-> "transform", key |-> key]>> ELSE <<>>)
    \o (IF Keeps(strip_nulls, dumped_elem)
        THEN <<[e |-> "insert", key |-> TransformedKey(key_transformer, key), of |-> key]>>
        ELSE <<>>)

\* the loop of default_dict_serializer, after the first n keys of the dict
RECURSIVE DictLoop(_, _, _, _, _)
DictLoop(items, n, strip_nulls, key_transformer, kw) ==
    IF n = 0 THEN Return(<<>>)
    ELSE LET prev == DictLoop(items, n - 1, strip_nulls, key_transformer, kw)
         IN IF prev.raised THEN prev
            ELSE LET key == items[n][1]
                     r == dump_impl(items[n][2],
                                    ChildKwargs(strip_nulls, key_transformer, kw))
                 IN IF r.raised
                    THEN [raised |-> TRUE, val |-> r.val, trace |-> prev.trace \o r.trace]
                    ELSE [raised |-> FALSE,
                          val |-> IF Keeps(strip_nulls, r.val)
                                  THEN SetItem(prev.val,
                                               TransformedKey(key_transformer, key), r.val)
                                  ELSE prev.val,
                          trace |-> prev.trace \o r.trace
                                    \o EntryEvents(strip_nulls, key_transformer, key, r.val)]

default_dict_serializer(o, strip_nulls, key_transformer, kw) ==
    LET r == DictLoop(o.items, Len(o.items), strip_nulls, key_transformer, kw)
    IN IF r.raised THEN r ELSE [r EXCEPT !.val = Dict(r.val)]

default_enum_serializer(o, use_enum_name, kw) ==
    Return(IF use_enum_name THEN o.name ELSE o.value)

UTC == <<"U", "T", "C">>

default_datetime_serializer(o, kw) ==
    LET timezone == o.tzinfo
        splits == Truthy(timezone) /\ timezone.tzname # UTC
        parts == Split(timezone.tzname, UTC)
        pattern == IF o.microsecond # 0
                   THEN RFC3339_DATETIME_PATTERN \o <<".", "%", "f">>
                   ELSE RFC3339_DATETIME_PATTERN
    IN IF splits /\ Len(parts) < 2
       THEN Raise("IndexError")
       ELSE Return(Str(Strftime(o, pattern \o (IF splits THEN parts[2] ELSE <<"Z">>))))

default_primitive_serializer(o, kw) == Return(o)

\* mutant: the fields are renamed before the dict serializer renames them again
ObjectSerializerRenamingFields(o, key_transformer, strip_nulls, kw) ==
    default_dict_serializer(
        Dict([i \in 1..Len(o.dict.items) |->
                <<TransformedKey(key_transformer, o.dict.items[i][1]), o.dict.items[i][2]>>]),
        strip_nulls, key_transformer, kw)

\* mutant: strip_nulls is not passed on to the dict serializer
ObjectSerializerLosingStripNulls(o, key_transformer, strip_nulls, kw) ==
    default_dict_serializer(o.dict, FALSE, key_transformer, kw)

default_object_serializer(o, key_transformer, strip_nulls, kw) ==
    default_dict_serializer(o.dict, strip_nulls, key_transformer, kw)

-----------------------------------------------------------------------------
(* The dispatcher *)

\* the serializer the registry resolves for a value
Resolve(o) ==
    CASE o.t = "enum" -> "default_enum_serializer"
      [] o.t = "dt" -> "default_datetime_serializer"
      [] o.t = "dict" -> "default_dict_serializer"
      [] o.t = "list" -> "default_list_serializer"
      [] o.t = "tuple" -> "default_tuple_serializer"
      [] o.t = "iter" -> "default_iterable_serializer"
      [] o.t \in {"null", "num", "str"} -> "default_primitive_serializer"
      [] OTHER -> "default_object_serializer"

\* serializer(obj, **kwargs): Python binds the named parameters of the
\* serializer from the keyword arguments and the rest stays in its **kwargs
Invoke(serializer, o, kw) ==
    CASE serializer = "default_iterable_serializer" -> default_iterable_serializer(o, kw)
      [] serializer = "default_list_serializer" -> default_list_serializer(o, kw)
      [] serializer = "default_tuple_serializer" -> default_tuple_serializer(o, kw)
      [] serializer = "default_dict_serializer" ->
            default_dict_serializer(o, Get(kw, "strip_nulls", FALSE),
                                    Get(kw, "key_transformer", None),
                                    Rest(kw, {"strip_nulls", "key_transformer"}))
      [] serializer = "default_enum_serializer" ->
            default_enum_serializer(o, Get(kw, "use_enum_name", TRUE),
                                    Rest(kw, {"use_enum_name"}))
      [] serializer = "default_datetime_serializer" -> default_datetime_serializer(o, kw)
      [] serializer = "default_primitive_serializer" -> default_primitive_serializer(o, kw)
      [] serializer = "default_object_serializer" ->
            default_object_serializer(o, Get(kw, "key_transformer", None),
                                      Get(kw, "strip_nulls", FALSE),
                                      Rest(kw, {"strip_nulls", "key_transformer"}))

dump_impl(o, kw) ==
    LET r == Invoke(Resolve(o), o, kw)
    IN [r EXCEPT !.trace = <<[e |-> "dispatch", obj |-> o, kwargs |-> kw, sub |-> r.trace]>>]

-----------------------------------------------------------------------------
(* The inputs: values and keyword arguments a caller can pass *)

Keys == {<<"a">>, <<"a", "b">>, <<"b">>}

Timezones ==
    {Timezone(UTC, 0),
     Timezone(UTC \o <<"+", "0", "2", ":", "0", "0">>, 120),
     Timezone(UTC \o <<"-", "0", "5", ":", "3", "0">>, -330),
     Timezone(<<"C", "E", "T">>, 60)}

Datetimes == {Datetime(us, tz) : us \in {0, 123400}, tz \in Timezones \cup {None}}

EnumMembers ==
    {EnumMember(<<"R", "E", "D">>, Num(1)),
     EnumMember(<<"B", "L", "U", "E">>, Str(<<"b", "l", "u", "e">>)),
     EnumMember(<<"N", "I", "L">>, None)}

Primitives == {None, Num(1), Str(<<"x">>)}

Leaves == Primitives \cup EnumMembers \cup Datetimes

\* the leaves that occur inside containers
Atoms ==
    {None, Num(1), EnumMember(<<"R", "E", "D">>, Num(1)),
     EnumMember(<<"N", "I", "L">>, None),
     Datetime(0, Timezone(<<"C", "E", "T">>, 60))}

SeqsOf(S) == UNION {[1..k -> S] : k \in 0..MaxLen}

ItemsOf(K, S) ==
    {items \in SeqsOf(K \X S) :
        \A i, j \in 1..Len(items) : items[i][1] = items[j][1] => i = j}

ContainersOf(K, S) ==
    {List(es) : es \in SeqsOf(S)} \cup {Tuple(es) : es \in SeqsOf(S)}
    \cup {Iter(es) : es \in SeqsOf(S)}
    \cup {Dict(items) : items \in ItemsOf(K, S)}
    \cup {Object(Dict(items)) : items \in ItemsOf(K, S)}

\* the values that occur inside the outer containers
Inner ==
    {None, Num(1),
     List(<<None>>), Tuple(<<EnumMember(<<"R", "E", "D">>, Num(1)), None>>),
     Dict(<<>>), Dict(<<<<<<"a">>, None>>, <<<<"a", "b">>, Num(1)>>>>),
     Object(Dict(<<<<<<"b">>, None>>, <<<<"a">>, EnumMember(<<"N", "I", "L">>, None)>>>>)),
     Iter(<<Datetime(0, Timezone(<<"C", "E", "T">>, 60)), Num(1)>>)}

\* the keys of the outer mappings: first_letter maps both to the same key
OuterKeys == {<<"a">>, <<"a", "b">>}

Values == Leaves \cup ContainersOf(Keys, Atoms) \cup ContainersOf(OuterKeys, Inner)

KwargsSet ==
    {a @@ b @@ c :
        a \in {NoKwargs, "strip_nulls" :> TRUE},
        b \in {NoKwargs, "key_transformer" :> Function("append_underscore"),
               "key_transformer" :> Function("first_letter")},
        c \in {NoKwargs, "use_enum_name" :> FALSE}}
    \cup {("strip_nulls" :> FALSE) @@ ("key_transformer" :> None)
            @@ ("use_enum_name" :> TRUE)}

-----------------------------------------------------------------------------
(* The state machine: a caller holds obj and kwargs and makes one call *)

Init ==
    /\ obj \in Values
    /\ kwargs \in KwargsSet
    /\ pc = "ready"
    /\ fn = "none"
    /\ out = Return(None)

CallDumpImpl ==
    /\ pc = "ready"
    /\ out' = dump_impl(obj, kwargs)
    /\ fn' = "dump_impl"
    /\ pc' = "done"
    /\ UNCHANGED <<obj, kwargs>>

CallIterableSerializer ==
    /\ pc = "ready"
    /\ obj.t \in {"list", "tuple", "iter"}
    /\ out' = default_iterable_serializer(obj, kwargs)
    /\ fn' = "default_iterable_serializer"
    /\ pc' = "done"
    /\ UNCHANGED <<obj, kwargs>>

CallListSerializer ==
    /\ pc = "ready"
    /\ obj.t \in {"list"}
    /\ out' = default_list_serializer(obj, kwargs)
    /\ fn' = "default_list_serializer"
    /\ pc' = "done"
    /\ UNCHANGED <<obj, kwargs>>

CallTupleSerializer ==
    /\ pc = "ready"
    /\ obj.t \in {"tuple"}
    /\ out' = default_tuple_serializer(obj, kwargs)
    /\ fn' = "default_tuple_serializer"
    /\ pc' = "done"
    /\ UNCHANGED <<obj, kwargs>>

CallDictSerializer ==
    /\ pc = "ready"
    /\ obj.t \in {"dict"}
    /\ out' = default_dict_serializer(obj, Get(kwargs, "strip_nulls", FALSE),
                                       Get(kwargs, "key_transformer", None),
                                       Rest(kwargs, {"strip_nulls", "key_transformer"}))
    /\ fn' = "default_dict_serializer"
    /\ pc' = "done"
    /\ UNCHANGED <<obj, kwargs>>

CallEnumSerializer ==
    /\ pc = "ready"
    /\ obj.t \in {"enum"}
    /\ out' = default_enum_serializer(obj, Get(kwargs, "use_enum_name", TRUE),
                                       Rest(kwargs, {"use_enum_name"}))
    /\ fn' = "default_enum_serializer"
    /\ pc' = "done"
    /\ UNCHANGED <<obj, kwargs>>

CallDatetimeSerializer ==
    /\ pc = "ready"
    /\ obj.t \in {"dt"}
    /\ out' = default_datetime_serializer(obj, kwargs)
    /\ fn' = "default_datetime_serializer"
    /\ pc' = "done"
    /\ UNCHANGED <<obj, kwargs>>

CallPrimitiveSerializer ==
    /\ pc = "ready"
    /\ obj.t \in {"null", "num", "str"}
    /\ out' = default_primitive_serializer(obj, kwargs)
    /\ fn' = "default_primitive_serializer"
    /\ pc' = "done"
    /\ UNCHANGED <<obj, kwargs>>

CallObjectSerializer ==
    /\ pc = "ready"
    /\ obj.t \in {"obj"}
    /\ out' = default_object_serializer(obj, Get(kwargs, "key_transformer", None),
                                         Get(kwargs, "strip_nulls", FALSE),
                                         Rest(kwargs, {"strip_nulls", "key_transformer"}))
    /\ fn' = "default_object_serializer"
    /\ pc' = "done"
    /\ UNCHANGED <<obj, kwargs>>

Next ==
    \/ CallDumpImpl
    \/ CallIterableSerializer
    \/ CallListSerializer
    \/ CallTupleSerializer
    \/ CallDictSerializer
    \/ CallEnumSerializer
    \/ CallDatetimeSerializer
    \/ CallPrimitiveSerializer
    \/ CallObjectSerializer

Spec == Init /\ [][Next]_vars

-----------------------------------------------------------------------------
(* Vocabulary of the properties *)

IsSequence(o) == o.t \in {"list", "tuple", "iter"}
IsMapping(o) == o.t \in {"dict", "obj"}

\* the entries of a mapping, or the fields of a generic object
EntriesOf(o) == IF o.t = "obj" THEN o.dict.items ELSE o.items

\* the values nested directly in a value
ChildrenOf(o) ==
    IF IsSequence(o) THEN o.elems
    ELSE IF IsMapping(o) THEN [i \in 1..Len(EntriesOf(o)) |-> EntriesOf(o)[i][2]]
    ELSE <<>>

RECURSIVE SumSeq(_)
SumSeq(ns) == IF ns = <<>> THEN 0 ELSE Head(ns) + SumSeq(Tail(ns))

RECURSIVE MaxSeq(_)
MaxSeq(ns) ==
    IF ns = <<>> THEN 0
    ELSE IF Head(ns) >= MaxSeq(Tail(ns)) THEN Head(ns) ELSE MaxSeq(Tail(ns))

\* the number of nodes of the value graph
RECURSIVE NodesOf(_)
NodesOf(o) == 1 + SumSeq([i \in 1..Len(ChildrenOf(o)) |-> NodesOf(ChildrenOf(o)[i])])

\* the nesting depth of a value: 1 for a leaf
RECURSIVE NestingDepth(_)
NestingDepth(o) ==
    1 + MaxSeq([i \in 1..Len(ChildrenOf(o)) |-> NestingDepth(ChildrenOf(o)[i])])

\* the number of dispatch calls in a trace
RECURSIVE DispatchCalls(_)
DispatchCalls(tr) ==
    SumSeq([i \in 1..Len(tr) |->
              IF tr[i].e = "dispatch" THEN 1 + DispatchCalls(tr[i].sub) ELSE 0])

\* the largest number of dispatch calls active at once in a trace
RECURSIVE DispatchDepth(_)
DispatchDepth(tr) ==
    MaxSeq([i \in 1..Len(tr) |->
              IF tr[i].e = "dispatch" THEN 1 + DispatchDepth(tr[i].sub) ELSE 0])

Done == pc = "done"

\* the options of the call the caller made
StripNulls == Get(kwargs, "strip_nulls", FALSE)
KeyTransformer == Get(kwargs, "key_transformer", None)
UseEnumName == Get(kwargs, "use_enum_name", TRUE)

\* the events of the serializer that ran on obj
RootTrace == IF fn = "dump_impl" THEN out.trace[1].sub ELSE out.trace

\* constants of the witnesses
A == <<"a">>
AB == <<"a", "b">>
B == <<"b">>
RED == EnumMember(<<"R", "E", "D">>, Num(1))
NIL == EnumMember(<<"N", "I", "L">>, None)
AppendUnderscore == Function("append_underscore")
FirstLetter == Function("first_letter")

-----------------------------------------------------------------------------
(* C1 *)

\* no mapping of a result, at any level, holds an entry whose value is None
RECURSIVE NoNullEntries(_)
NoNullEntries(res) ==
    CASE res.t = "dict" ->
            \A j \in 1..Len(res.items) :
                res.items[j][2].t # "null" /\ NoNullEntries(res.items[j][2])
      [] res.t = "list" -> \A i \in 1..Len(res.elems) : NoNullEntries(res.elems[i])
      [] OTHER -> TRUE

\* every sequence of the input is, in the result, a sequence of the same
\* length that has None wherever the input has None
RECURSIVE KeepsNullElements(_, _)
KeepsNullElements(in, res) ==
    CASE IsSequence(in) ->
            /\ res.t = "list"
            /\ Len(res.elems) = Len(in.elems)
            /\ \A i \in 1..Len(in.elems) :
                  /\ in.elems[i].t = "null" => res.elems[i].t = "null"
                  /\ KeepsNullElements(in.elems[i], res.elems[i])
      [] IsMapping(in) ->
            /\ res.t = "dict"
            /\ \A j \in 1..Len(res.items) :
                  \E i \in 1..Len(EntriesOf(in)) :
                      KeepsNullElements(EntriesOf(in)[i][2], res.items[j][2])
      [] OTHER -> TRUE

\* C1: with strip_nulls=True, no mapping in the result, at any nesting level
\* (inside sequences and generic objects too), has an entry whose value is
\* None, and every sequence keeps its length and its None elements.
C1_StripNulls ==
    (Done /\ StripNulls /\ ~out.raised)
        => (NoNullEntries(out.val) /\ KeepsNullElements(obj, out.val))

\* a mapping holding a sequence with a None element and a mapping with a None
\* value, dispatched with strip_nulls=True
C1_Witness ==
    /\ Done /\ fn = "dump_impl" /\ StripNulls /\ ~Truthy(KeyTransformer)
    /\ obj = Dict(<<<<A, List(<<None>>)>>,
                    <<AB, Dict(<<<<A, None>>, <<AB, Num(1)>>>>)>>>>)
    /\ out.val = Dict(<<<<A, List(<<None>>)>>, <<AB, Dict(<<<<AB, Num(1)>>>>)>>>>)

-----------------------------------------------------------------------------
(* C2 *)

\* every key of every mapping of the result is f(key) for a key of the
\* mapping of the input it comes from
RECURSIVE KeysTransformedOnce(_, _, _)
KeysTransformedOnce(in, res, f) ==
    CASE IsSequence(in) ->
            /\ res.t = "list"
            /\ Len(res.elems) = Len(in.elems)
            /\ \A i \in 1..Len(in.elems) : KeysTransformedOnce(in.elems[i], res.elems[i], f)
      [] IsMapping(in) ->
            /\ res.t = "dict"
            /\ \A j \in 1..Len(res.items) :
                  \E i \in 1..Len(EntriesOf(in)) :
                      /\ res.items[j][1] = CallKeyTransformer(f, EntriesOf(in)[i][1])
                      /\ KeysTransformedOnce(EntriesOf(in)[i][2], res.items[j][2], f)
      [] OTHER -> TRUE

\* C2: with a key_transformer f, every key of every mapping in the result, at
\* every nesting level, is f(original key), f applied once: also for the
\* mappings made from generic objects.
C2_KeysTransformedOnce ==
    (Done /\ Truthy(KeyTransformer) /\ ~out.raised)
        => KeysTransformedOnce(obj, out.val, KeyTransformer)

\* a generic object holding a mapping and a sequence, with a transformer that
\* is not idempotent
C2_Witness ==
    /\ Done /\ fn = "dump_impl" /\ KeyTransformer = AppendUnderscore /\ ~StripNulls
    /\ obj = Object(Dict(<<<<A, Dict(<<<<A, None>>, <<AB, Num(1)>>>>)>>,
                           <<AB, List(<<None>>)>>>>))
    /\ out.val = Dict(<<<<<<"a", "_">>, Dict(<<<<<<"a", "_">>, None>>,
                                               <<<<"a", "b", "_">>, Num(1)>>>>)>>,
                        <<<<"a", "b", "_">>, List(<<None>>)>>>>)

-----------------------------------------------------------------------------
(* C3 *)

\* every dispatch call of a trace received the Config cfg, and every dispatch
\* call below it received the Config of the call above it
RECURSIVE ConfigPropagates(_, _)
ConfigPropagates(tr, cfg) ==
    \A i \in 1..Len(tr) :
        tr[i].e = "dispatch" =>
            /\ ConfigOf(tr[i].kwargs) = cfg
            /\ ConfigPropagates(tr[i].sub, ConfigOf(tr[i].kwargs))

\* C3: every recursive dispatch call a default serializer makes passes on the
\* Config it was called with: the same strip_nulls, key_transformer and extra
\* options, at every depth.
C3_ConfigPropagates == Done => ConfigPropagates(out.trace, ConfigOf(kwargs))

\* an enumeration inside a sequence inside a mapping sees use_enum_name=False
C3_Witness ==
    /\ Done /\ fn = "dump_impl" /\ ~UseEnumName /\ ~StripNulls /\ ~Truthy(KeyTransformer)
    /\ obj = Dict(<<<<A, Tuple(<<RED, None>>)>>>>)
    /\ out.val = Dict(<<<<A, List(<<Num(1), None>>)>>>>)
    /\ DispatchDepth(out.trace) = 3

-----------------------------------------------------------------------------
(* C4 *)

\* the number of events of a kind among the first p events of a trace
CountUpTo(tr, p, kind) == Cardinality({q \in 1..p : tr[q].e = kind})

\* the events of one run of the mapping serializer on entries: for each key in
\* insertion order the dispatch of its value, then the test, then (for a kept
\* entry) the transformer call and the insertion, and nothing for a dropped one
MappingOrdered(entries, tr, transforms) ==
    /\ \A p \in 1..Len(tr) :
          CASE tr[p].e = "dispatch" ->
                  /\ CountUpTo(tr, p, "dispatch") <= Len(entries)
                  /\ tr[p].obj = entries[CountUpTo(tr, p, "dispatch")][2]
                  /\ CountUpTo(tr, p, "test") = CountUpTo(tr, p, "dispatch") - 1
                  /\ p < Len(tr) => tr[p + 1].e = "test"
            [] tr[p].e = "test" ->
                  /\ p > 1 /\ tr[p - 1].e = "dispatch"
                  /\ tr[p].key = entries[CountUpTo(tr, p, "test")][1]
                  /\ tr[p].keep =>
                        /\ p < Len(tr)
                        /\ tr[p + 1].e = (IF transforms THEN "transform" ELSE "insert")
                  /\ (~tr[p].keep /\ p < Len(tr)) => tr[p + 1].e = "dispatch"
            [] tr[p].e = "transform" ->
                  /\ transforms
                  /\ p > 1 /\ tr[p - 1].e = "test" /\ tr[p - 1].keep
                  /\ tr[p - 1].key = tr[p].key
                  /\ p < Len(tr) /\ tr[p + 1].e = "insert" /\ tr[p + 1].of = tr[p].key
            [] tr[p].e = "insert" ->
                  /\ p > 1
                  /\ tr[p - 1].e = (IF transforms THEN "transform" ELSE "test")
                  /\ tr[p - 1].key = tr[p].of
    /\ transforms =>
          CountUpTo(tr, Len(tr), "transform") = CountUpTo(tr, Len(tr), "insert")
    /\ CountUpTo(tr, Len(tr), "insert")
          = Cardinality({p \in 1..Len(tr) : tr[p].e = "test" /\ tr[p].keep})

\* MappingOrdered for the serializer that ran on o with the events tr, and for
\* every mapping serializer below it
RECURSIVE MappingsOrdered(_, _, _)
MappingsOrdered(o, tr, kw) ==
    /\ IsMapping(o) =>
          MappingOrdered(EntriesOf(o), tr, Truthy(Get(kw, "key_transformer", None)))
    /\ \A p \in 1..Len(tr) :
          tr[p].e = "dispatch" => MappingsOrdered(tr[p].obj, tr[p].sub, tr[p].kwargs)

\* C4: in the mapping serializer, for each key in insertion order, the value is
\* dispatched, then the null-stripping test is made, and only then the
\* key_transformer (when one is set) is called: once for every entry that is
\* kept and never for one that is dropped, so that there are as many
\* transformer calls as insertions.
C4_TransformAfterStripping == Done => MappingsOrdered(obj, RootTrace, kwargs)

\* a mapping with a dropped entry before a kept one, and a transformer
C4_Witness ==
    /\ Done /\ fn = "default_dict_serializer" /\ StripNulls
    /\ KeyTransformer = AppendUnderscore
    /\ obj = Dict(<<<<A, None>>, <<AB, Num(1)>>>>)
    /\ out.val = Dict(<<<<<<"a", "b", "_">>, Num(1)>>>>)
    /\ [p \in 1..Len(out.trace) |-> out.trace[p].e]
          = <<"dispatch", "test", "dispatch", "test", "transform", "insert">>
    /\ ~out.trace[2].keep /\ out.trace[5].key = AB

-----------------------------------------------------------------------------
(* C5 *)

\* C5: the dispatch of a sequence s (list, tuple or iterable) is a list of the
\* length of s whose i-th element is the dispatch of s[i] with the same keyword
\* arguments, in the order of s, whatever strip_nulls and key_transformer are;
\* it raises exactly when the dispatch of one of its elements raises.
C5_SequenceElementwise ==
    (Done /\ IsSequence(obj)) =>
        IF out.raised
        THEN \E i \in 1..Len(obj.elems) : dump_impl(obj.elems[i], kwargs).raised
        ELSE /\ out.val.t = "list"
             /\ Len(out.val.elems) = Len(obj.elems)
             /\ \A i \in 1..Len(obj.elems) :
                   /\ ~dump_impl(obj.elems[i], kwargs).raised
                   /\ out.val.elems[i] = dump_impl(obj.elems[i], kwargs).val

\* a tuple with a None element, dispatched with strip_nulls=True and a transformer
C5_Witness ==
    /\ Done /\ fn = "default_tuple_serializer" /\ StripNulls
    /\ KeyTransformer = FirstLetter
    /\ obj = Tuple(<<Dict(<<<<A, None>>, <<AB, Num(1)>>>>), None>>)
    /\ out.val = List(<<Dict(<<<<A, Num(1)>>>>), None>>)

-----------------------------------------------------------------------------
(* C6 *)

\* what the mapping serializer does with the fields of obj and the caller's options
FieldsSerialized ==
    default_dict_serializer(obj.dict, Get(kwargs, "strip_nulls", FALSE),
                            Get(kwargs, "key_transformer", None),
                            Rest(kwargs, {"strip_nulls", "key_transformer"}))

\* C6: for a generic object, the fallback serializer gives what the mapping
\* serializer gives on the object's fields with the same Config: the same
\* keys, values and order, the same effect of the options, the same events.
C6_ObjectAsMapping ==
    (Done /\ obj.t = "obj") =>
        /\ out.raised = FieldsSerialized.raised
        /\ out.val = FieldsSerialized.val
        /\ RootTrace = FieldsSerialized.trace
        /\ out.raised = dump_impl(obj.dict, kwargs).raised
        /\ out.val = dump_impl(obj.dict, kwargs).val

\* an object with a field that serializes to None (an enumeration member whose
\* value is None, with use_enum_name=False), with every option set
C6_Witness ==
    /\ Done /\ fn = "default_object_serializer" /\ StripNulls /\ ~UseEnumName
    /\ KeyTransformer = AppendUnderscore
    /\ obj = Object(Dict(<<<<A, Num(1)>>, <<AB, NIL>>>>))
    /\ out.val = Dict(<<<<<<"a", "_">>, Num(1)>>>>)

-----------------------------------------------------------------------------
(* C7 *)

\* C7: for an enumeration member the serializer returns the member's name by
\* default (use_enum_name absent or True) and the member's value with
\* use_enum_name=False, and the result is a str in both cases, also when the
\* member's value is not a str.
C7_EnumIsString ==
    (Done /\ obj.t = "enum") =>
        /\ ~out.raised
        /\ out.val.t = "str"
        /\ UseEnumName => out.val = obj.name
        /\ (~UseEnumName /\ obj.value.t = "str") => out.val = obj.value

-----------------------------------------------------------------------------
(* C8 *)

EndsWith(s, suffix) ==
    Len(s) >= Len(suffix) /\ SubSeq(s, Len(s) - Len(suffix) + 1, Len(s)) = suffix

HasFraction(s) == \E i \in 1..Len(s) : s[i] = "."

IsDigit(c) == \E i \in 1..Len(Digits) : Digits[i] = c

\* s ends with a signed offset, +HH:MM or -HH:MM
EndsWithOffset(s) ==
    /\ Len(s) >= 6
    /\ s[Len(s) - 5] \in {"+", "-"}
    /\ IsDigit(s[Len(s) - 4]) /\ IsDigit(s[Len(s) - 3])
    /\ s[Len(s) - 2] = ":"
    /\ IsDigit(s[Len(s) - 1]) /\ IsDigit(s[Len(s)])

IsUTC(tz) == tz.t = "tz" /\ tz.utcoffset = 0

\* C8: the serialized date-time has the fractional part iff the microsecond
\* is not zero, ends with Z iff the timezone is UTC, and for every other value
\* (a timezone that is not UTC, no timezone at all) ends with the signed offset.
C8_DatetimeSuffix ==
    (Done /\ obj.t = "dt") =>
        /\ ~out.raised
        /\ out.val.t = "str"
        /\ HasFraction(out.val.s) <=> obj.microsecond # 0
        /\ EndsWith(out.val.s, <<"Z">>) <=> IsUTC(obj.tzinfo)
        /\ ~IsUTC(obj.tzinfo) => EndsWithOffset(out.val.s)

-----------------------------------------------------------------------------
(* C9 *)

\* C9: a dispatch of a finite value that has finished (returned or raised) has
\* made one dispatch call for each node of the value, the deepest of them at
\* the nesting depth of the value.
C9_OneDispatchPerNode ==
    (Done /\ fn = "dump_impl") =>
        /\ DispatchCalls(out.trace) = NodesOf(obj)
        /\ DispatchDepth(out.trace) = NestingDepth(obj)

-----------------------------------------------------------------------------
(* C10 *)

\* the dumped value of the i-th entry of obj
DumpedEntry(i) == dump_impl(EntriesOf(obj)[i][2], kwargs)

\* the entries of obj that survive the null-stripping
Survivors ==
    {i \in 1..Len(EntriesOf(obj)) : ~(StripNulls /\ DumpedEntry(i).val.t = "null")}

\* the key of the result the i-th entry of obj goes to
ResultKey(i) ==
    IF Truthy(KeyTransformer)
    THEN CallKeyTransformer(KeyTransformer, EntriesOf(obj)[i][1])
    ELSE EntriesOf(obj)[i][1]

\* the result holds one entry for each key the survivors go to, with the
\* value of the last survivor that goes to it
LastWriterWins ==
    /\ out.raised <=> \E i \in 1..Len(EntriesOf(obj)) : DumpedEntry(i).raised
    /\ ~out.raised =>
          /\ out.val.t = "dict"
          /\ Len(out.val.items) <= Cardinality(Survivors)
          /\ \A j, k \in 1..Len(out.val.items) :
                out.val.items[j][1] = out.val.items[k][1] => j = k
          /\ {out.val.items[j][1] : j \in 1..Len(out.val.items)}
                = {ResultKey(i) : i \in Survivors}
          /\ \A j \in 1..Len(out.val.items) :
                \E i \in Survivors :
                    /\ ResultKey(i) = out.val.items[j][1]
                    /\ \A l \in Survivors : ResultKey(l) = ResultKey(i) => l <= i
                    /\ out.val.items[j][2] = DumpedEntry(i).val

\* C10: the mapping serializer leaves its input mapping as it was, and its
\* result has at most as many entries as survive the null-stripping: when two
\* surviving keys are transformed to the same key the result has one entry for
\* it, with the value of the later key, and no error is raised.
C10_InputKeptLastWriterWins ==
    /\ []((Done /\ IsMapping(obj)) => LastWriterWins)
    /\ [][obj' = obj]_vars

\* two surviving keys that first_letter maps to the same key
C10_Witness ==
    /\ Done /\ fn = "default_dict_serializer" /\ KeyTransformer = FirstLetter
    /\ UseEnumName /\ StripNulls
    /\ obj = Dict(<<<<AB, Num(1)>>, <<A, RED>>>>)
    /\ out.val = Dict(<<<<A, Str(<<"R", "E", "D">>)>>>>)

====
